---- MODULE Spec2Model ----
(***************************************************************************)
(* Model of @nnou/result: the Result constructors (result.ts), the runtime *)
(* predicate and assertions (assert.ts) and the resolve / resolveAsync     *)
(* adapters with their error-normalization policy (resolve.ts).            *)
(*                                                                         *)
(* JavaScript values are records tagged by `kind`.  Objects and functions  *)
(* carry an `id` (their identity, what === compares), a prototype tag and  *)
(* a `fields` function from own property names to values, so that the      *)
(* presence of a property ('value' in v) is distinct from its value.       *)
(***************************************************************************)
EXTENDS Integers, Sequences, FiniteSets, TLC

VARIABLES pc, mode, fn, handler, base, nextId, outcome, log, calls, probe

vars == <<pc, mode, fn, handler, base, nextId, outcome, log, calls, probe>>

(***************************************************************************)
(* Bounds                                                                  *)
(***************************************************************************)
\* number of adapter calls (or probes of the pure helpers) in one behaviour
MaxCalls == 2

(***************************************************************************)
(* JavaScript values                                                       *)
(***************************************************************************)
Undefined == [kind |-> "undefined"]

Null == [kind |-> "null"]

Str(s) == [kind |-> "string", s |-> s]

Num(n) == [kind |-> "number", nan |-> FALSE, n |-> n]

NaN == [kind |-> "number", nan |-> TRUE, n |-> 0]

Bool(b) == [kind |-> "boolean", b |-> b]

NoFields == [f \in {} |-> Undefined]

Obj(id, proto, fields) == [kind |-> "object", id |-> id, proto |-> proto, fields |-> fields]

\* a caller-supplied closure; `body` names what it does when invoked (see Apply)
Func(id, body, fields) == [kind |-> "function", id |-> id, body |-> body, fields |-> fields]

\* new Error(message)
NewError(id, message) == Obj(id, "Error", [message |-> Str(message)])

\* the typeof operator
typeof(v) ==
    IF v.kind = "null" THEN "object" ELSE v.kind

\* the === operator
StrictEq(a, b) ==
    /\ a.kind = b.kind
    /\ CASE a.kind = "undefined" -> TRUE
         [] a.kind = "null" -> TRUE
         [] a.kind = "string" -> a.s = b.s
         [] a.kind = "number" -> ~a.nan /\ ~b.nan /\ a.n = b.n
         [] a.kind = "boolean" -> a.b = b.b
         [] OTHER -> a.id = b.id

\* the `in` operator for the property names the library probes
HasProp(name, v) ==
    /\ v.kind \in {"object", "function"}
    /\ name \in DOMAIN v.fields

\* `v instanceof Error`
InstanceofError(v) ==
    v.kind = "object" /\ v.proto = "Error"

\* `v instanceof Function`
InstanceofFunction(v) ==
    v.kind = "function"

\* property read v.name; Error.prototype supplies message = "" when an
\* Error has no own message
Get(v, name) ==
    IF HasProp(name, v) THEN v.fields[name]
    ELSE IF InstanceofError(v) /\ name = "message" THEN Str("")
    ELSE Undefined

(***************************************************************************)
(* result.ts                                                               *)
(***************************************************************************)
\* ok(value): a fresh object { ok: true, value }
ok(value, id) ==
    Obj(id, "Object", [ok |-> Bool(TRUE), value |-> value])

\* err(error): a fresh object { ok: false, error }
err(error, id) ==
    Obj(id, "Object", [ok |-> Bool(FALSE), error |-> error])

(***************************************************************************)
(* assert.ts                                                               *)
(***************************************************************************)
\* isResult accepting either payload field for either tag
isResult_eitherPayload(value) ==
    /\ typeof(value) = "object"
    /\ value.kind # "null"
    /\ HasProp("ok", value)
    /\ typeof(Get(value, "ok")) = "boolean"
    /\ (HasProp("value", value) \/ HasProp("error", value))

isResult(value) ==
    /\ typeof(value) = "object"
    /\ value.kind # "null"
    /\ HasProp("ok", value)
    /\ typeof(Get(value, "ok")) = "boolean"
    /\ \/ (Get(value, "ok").b /\ HasProp("value", value))
       \/ (~Get(value, "ok").b /\ HasProp("error", value))

\* truthiness, as `!v` and `v && ...` see it
Truthy(v) ==
    CASE v.kind = "undefined" -> FALSE
      [] v.kind = "null" -> FALSE
      [] v.kind = "boolean" -> v.b
      [] v.kind = "string" -> v.s # ""
      [] v.kind = "number" -> ~v.nan /\ v.n # 0
      [] OTHER -> TRUE

\* the message an Error contributes to its string conversion
toStrMessage(v) ==
    IF Get(v, "message").kind = "string" THEN Get(v, "message").s ELSE "?"

\* string conversion of a template literal `${v}`
toStr(v) ==
    CASE v.kind = "undefined" -> "undefined"
      [] v.kind = "null" -> "null"
      [] v.kind = "string" -> v.s
      [] v.kind = "number" -> IF v.nan THEN "NaN" ELSE ToString(v.n)
      [] v.kind = "boolean" -> IF v.b THEN "true" ELSE "false"
      [] v.kind = "function" -> "(e) => " \o v.body
      [] OTHER -> IF InstanceofError(v)
                  THEN (IF toStrMessage(v) = "" THEN "Error" ELSE "Error: " \o toStrMessage(v))
                  ELSE "[object Object]"

\* outcomes of a call: a normal return or a throw, with the allocator after it
Returns(val, next) == [type |-> "return", val |-> val, next |-> next]

Throws(val, next) == [type |-> "throw", val |-> val, next |-> next]

assertResultOk(result, id) ==
    IF ~Truthy(Get(result, "ok"))
    THEN Throws(NewError(id, "Expected a successful result"), id + 1)
    ELSE Returns(Undefined, id)

assertResultErr(result, id) ==
    IF Truthy(Get(result, "ok"))
    THEN Throws(NewError(id, "Expected a failed result"), id + 1)
    ELSE Returns(Undefined, id)

\* structural comparison of two values, identities ignored at the top level
DeepEq(a, b) ==
    IF a.kind = "object" /\ b.kind = "object"
    THEN a.proto = b.proto /\ a.fields = b.fields
    ELSE StrictEq(a, b)

assertResultOkEqual_deep(result, value, id) ==
    LET a == assertResultOk(result, id) IN
    IF a.type = "throw" THEN a
    ELSE IF ~DeepEq(Get(result, "value"), value)
         THEN Throws(NewError(id, "Expected the value to be " \o toStr(value)), id + 1)
         ELSE Returns(Undefined, id)

assertResultOkEqual(result, value, id) ==
    LET a == assertResultOk(result, id) IN
    IF a.type = "throw" THEN a
    ELSE IF ~StrictEq(Get(result, "value"), value)
         THEN Throws(NewError(id, "Expected the value to be " \o toStr(value)), id + 1)
         ELSE Returns(Undefined, id)

assertResultErrEqual(result, error, id) ==
    LET a == assertResultErr(result, id) IN
    IF a.type = "throw" THEN a
    ELSE IF ~StrictEq(Get(result, "error"), error)
         THEN Throws(NewError(id, "Expected the error to be " \o toStr(error)), id + 1)
         ELSE Returns(Undefined, id)

(***************************************************************************)
(* Caller-supplied closures                                                *)
(***************************************************************************)
\* handler(error): what each handler closure does with the raised value
Apply(f, e, id) ==
    CASE f.body = "e"
            -> Returns(e, id)
      [] f.body = "e instanceof Error ? e : new Error('Another error')"
            -> IF InstanceofError(e) THEN Returns(e, id)
               ELSE Returns(NewError(id, "Another error"), id + 1)
      [] f.body = "err(e instanceof Error ? e : new Error('Another error'))"
            -> IF InstanceofError(e) THEN Returns(err(e, id), id + 1)
               ELSE Returns(err(NewError(id, "Another error"), id + 1), id + 2)
      [] f.body = "({ code: 'error', error: e })"
            -> Returns(Obj(id, "Object", [code |-> Str("error"), error |-> e]), id + 1)
      [] f.body = "ok(42)"
            -> Returns(ok(Num(42), id), id + 1)
      [] f.body = "({ ok: true, error: e })"
            -> Returns(Obj(id, "Object", [ok |-> Bool(TRUE), error |-> e]), id + 1)
      [] f.body = "{ console.log(e) }"
            -> Returns(Undefined, id)
      [] f.body = "null"
            -> Returns(Null, id)
      [] f.body = "{ throw new Error('handler failed') }"
            -> Throws(NewError(id, "handler failed"), id + 1)
      [] OTHER
            -> Throws(e, id)

(***************************************************************************)
(* resolve.ts                                                              *)
(***************************************************************************)
\* one entry of the record of invocations made during a call
Ev(ev, arg) == [ev |-> ev, arg |-> arg]

\* outcome of an adapter or of the policy: Returns/Throws plus the invocations made
WithLog(o, l) == [type |-> o.type, val |-> o.val, next |-> o.next, log |-> l]

\* errMessage reading the message of anything that has one
errMessage_duck(error) ==
    IF typeof(error) = "string" THEN error
    ELSE IF InstanceofError(error) \/ HasProp("message", error) THEN Get(error, "message")
    ELSE Str("An error occurred")

\* line 183: the fallback message
errMessage(error) ==
    IF typeof(error) = "string" THEN error
    ELSE IF InstanceofError(error) THEN Get(error, "message")
    ELSE Str("An error occurred")

\* handleError wrapping whatever the handler returns
handleError_alwaysWrap(error, h, id) ==
    LET msg == errMessage(error) IN
    IF typeof(h) = "undefined" \/ StrictEq(Str(typeof(h)), Null)
    THEN WithLog(Returns(err(msg, id), id + 1), <<>>)
    ELSE IF InstanceofFunction(h)
    THEN LET e == Apply(h, error, id) IN
         IF e.type = "throw"
         THEN WithLog(e, <<Ev("handler_call", error), Ev("handler_throw", e.val)>>)
         ELSE WithLog(Returns(err(e.val, e.next), e.next + 1),
                      <<Ev("handler_call", error), Ev("handler_return", e.val)>>)
    ELSE WithLog(Returns(err(h, id), id + 1), <<>>)

\* handleError falling back to the message when given a default error
handleError_defaultMessage(error, h, id) ==
    LET msg == errMessage(error) IN
    IF typeof(h) = "undefined" \/ StrictEq(Str(typeof(h)), Null)
    THEN WithLog(Returns(err(msg, id), id + 1), <<>>)
    ELSE IF InstanceofFunction(h)
    THEN LET e == Apply(h, error, id) IN
         IF e.type = "throw"
         THEN WithLog(e, <<Ev("handler_call", error), Ev("handler_throw", e.val)>>)
         ELSE WithLog(IF isResult(e.val)
                      THEN Returns(e.val, e.next)
                      ELSE Returns(err(e.val, e.next), e.next + 1),
                      <<Ev("handler_call", error), Ev("handler_return", e.val)>>)
    ELSE WithLog(Returns(err(msg, id), id + 1), <<>>)

\* handleError catching what the handler throws and wrapping it
handleError_catchHandler(error, h, id) ==
    LET msg == errMessage(error) IN
    IF typeof(h) = "undefined" \/ StrictEq(Str(typeof(h)), Null)
    THEN WithLog(Returns(err(msg, id), id + 1), <<>>)
    ELSE IF InstanceofFunction(h)
    THEN LET e == Apply(h, error, id) IN
         IF e.type = "throw"
         THEN WithLog(Returns(err(e.val, e.next), e.next + 1),
                      <<Ev("handler_call", error), Ev("handler_throw", e.val)>>)
         ELSE WithLog(IF isResult(e.val)
                      THEN Returns(e.val, e.next)
                      ELSE Returns(err(e.val, e.next), e.next + 1),
                      <<Ev("handler_call", error), Ev("handler_return", e.val)>>)
    ELSE WithLog(Returns(err(h, id), id + 1), <<>>)

handleError(error, h, id) ==
    LET msg == errMessage(error) IN
    IF typeof(h) = "undefined" \/ StrictEq(Str(typeof(h)), Null)
    THEN WithLog(Returns(err(msg, id), id + 1), <<>>)
    ELSE IF InstanceofFunction(h)
    THEN LET e == Apply(h, error, id) IN
         IF e.type = "throw"
         THEN WithLog(e, <<Ev("handler_call", error), Ev("handler_throw", e.val)>>)
         ELSE WithLog(IF isResult(e.val)
                      THEN Returns(e.val, e.next)
                      ELSE Returns(err(e.val, e.next), e.next + 1),
                      <<Ev("handler_call", error), Ev("handler_return", e.val)>>)
    ELSE WithLog(Returns(err(h, id), id + 1), <<>>)

\* resolve treating a returned failure Result like a thrown error
resolve_intercept(f, h, id) ==
    IF f.act = "return" /\ Truthy(Get(f.val, "ok"))
    THEN WithLog(Returns(f.val, id), <<Ev("fn_call", Undefined), Ev("fn_return", f.val)>>)
    ELSE LET x == IF f.act = "return" THEN Get(f.val, "error") ELSE f.val
             c == handleError(x, h, id) IN
         WithLog(c, <<Ev("fn_call", Undefined),
                      Ev(IF f.act = "return" THEN "fn_return" ELSE "fn_throw", f.val)>> \o c.log)

\* resolve invoking the operation a second time after it threw
resolve_retry(f, h, id) ==
    IF f.act = "return"
    THEN WithLog(Returns(f.val, id), <<Ev("fn_call", Undefined), Ev("fn_return", f.val)>>)
    ELSE LET c == handleError(f.val, h, id) IN
         WithLog(c, <<Ev("fn_call", Undefined), Ev("fn_throw", f.val),
                      Ev("fn_call", Undefined), Ev("fn_throw", f.val)>> \o c.log)

\* resolve(fn, handler); f is what the operation does: return f.val or throw f.val
resolve(f, h, id) ==
    IF f.act = "return"
    THEN WithLog(Returns(f.val, id), <<Ev("fn_call", Undefined), Ev("fn_return", f.val)>>)
    ELSE LET c == handleError(f.val, h, id) IN
         WithLog(c, <<Ev("fn_call", Undefined), Ev("fn_throw", f.val)>> \o c.log)

\* resolveAsync(fn, handler) up to its suspension point: fn is invoked; a
\* synchronous throw is caught at once, a returned future is awaited
resolveAsyncStart(f, h, id) ==
    IF f.act = "throw"
    THEN LET c == handleError(f.val, h, id) IN
         [c EXCEPT !.log = <<Ev("fn_call", Undefined), Ev("fn_throw", f.val)>> \o c.log]
    ELSE [type |-> "await", val |-> Undefined, next |-> id,
          log |-> <<Ev("fn_call", Undefined), Ev("fn_return", Str("Promise"))>>]

\* resolveAsync returning the future without awaiting it: a rejection is not caught
resolveAsyncResume_noAwait(s, h, id) ==
    IF s.act = "resolve"
    THEN WithLog(Returns(s.val, id), <<Ev("fn_resolve", s.val)>>)
    ELSE WithLog(Throws(s.val, id), <<Ev("fn_reject", s.val)>>)

\* resolveAsync after the await: the future has settled as s says
resolveAsyncResume(s, h, id) ==
    IF s.act = "resolve"
    THEN WithLog(Returns(s.val, id), <<Ev("fn_resolve", s.val)>>)
    ELSE LET c == handleError(s.val, h, id) IN
         [c EXCEPT !.log = <<Ev("fn_reject", s.val)>> \o c.log]

(***************************************************************************)
(* Inputs: the values callers throw, return and pass in                    *)
(***************************************************************************)
ErrBoom == NewError(1, "boom")

ErrNoMessage == Obj(2, "Error", NoFields)

MessageObject == Obj(3, "Object", [message |-> Str("boom")])

CodeObject == Obj(4, "Object", [code |-> Str("E")])

OkResult == ok(Num(42), 5)

ErrResult == err(Str("An error occurred"), 6)

MyError == Obj(7, "Object", [code |-> Str("err-code")])

MyErrorTwin == Obj(8, "Object", [code |-> Str("err-code")])

\* values an operation may throw or reject with
Raised ==
    {Str("boom"), Str(""), ErrBoom, ErrNoMessage, MessageObject, CodeObject,
     Num(42), Undefined, Null}

\* Results an operation may return or resolve to
Declared == {OkResult, ErrResult}

HandlerFunctions ==
    {Func(10, "e", NoFields),
     Func(11, "e instanceof Error ? e : new Error('Another error')", NoFields),
     Func(12, "err(e instanceof Error ? e : new Error('Another error'))", NoFields),
     Func(13, "({ code: 'error', error: e })", NoFields),
     Func(14, "ok(42)", NoFields),
     Func(15, "({ ok: true, error: e })", NoFields),
     Func(16, "{ console.log(e) }", NoFields),
     Func(17, "null", NoFields),
     Func(18, "{ throw new Error('handler failed') }", NoFields),
     Func(19, "{ throw e }", NoFields)}

\* present, non-callable default errors
DefaultErrors == {MyError, Str("default"), Num(0), ErrResult}

\* the second argument of resolve / resolveAsync
Handlers == {Undefined, Null} \cup DefaultErrors \cup HandlerFunctions

\* what a synchronous operation does when invoked
SyncFns ==
    [act : {"return"}, val : Declared] \cup [act : {"throw"}, val : Raised]

\* what an asynchronous operation does: throw before returning a future, or
\* return a future that resolves, rejects or never settles
AsyncFns ==
    [act : {"resolve"}, val : Declared] \cup [act : {"throw", "reject"}, val : Raised]
        \cup [act : {"never"}, val : {Undefined}]

\* objects shaped like, or unlike, a Result
Shapes ==
    {Obj(20, "Object", NoFields),
     Obj(21, "Object", [ok |-> Str("potato")]),
     Obj(22, "Object", [ok |-> Bool(TRUE), value |-> Num(42)]),
     Obj(23, "Object", [ok |-> Bool(TRUE), error |-> Str("An error occurred")]),
     Obj(24, "Object", [ok |-> Bool(FALSE), value |-> Num(42)]),
     Obj(25, "Object", [ok |-> Bool(FALSE), error |-> Str("An error occurred")]),
     Obj(26, "Object", [ok |-> Bool(TRUE), value |-> Num(42), error |-> Str("x")]),
     Obj(27, "Object", [ok |-> Bool(FALSE), value |-> Num(42), error |-> Str("x")]),
     Obj(28, "Object", [ok |-> Bool(TRUE), value |-> Undefined]),
     Obj(29, "Object", [ok |-> Bool(FALSE), error |-> Null]),
     Obj(30, "Object", [value |-> Num(42), error |-> Str("x")]),
     Obj(31, "Object", [ok |-> Num(1), value |-> Num(42)]),
     Obj(32, "Object", [ok |-> Bool(TRUE)]),
     Obj(33, "Object", [ok |-> Bool(FALSE)]),
     Obj(34, "Error", [message |-> Str("boom"), ok |-> Bool(FALSE), error |-> Str("x")]),
     Func(35, "e", [ok |-> Bool(TRUE), value |-> Num(42)])}

\* payloads compared by the assertions
Payloads ==
    {Num(42), Num(43), NaN, Num(0), Str("An error occurred"), Str("Another error occurred"),
     MyError, MyErrorTwin, Undefined, Null, Bool(TRUE)}

\* arguments of isResult
Anything == Payloads \cup Raised \cup Declared \cup Shapes \cup HandlerFunctions

\* Results handed to the assertions
Results ==
    {ok(Num(42), 40), ok(MyError, 41), ok(NaN, 42), ok(Str("An error occurred"), 43),
     err(Str("An error occurred"), 44), err(MyError, 45), err(Num(42), 46), err(NaN, 47),
     Obj(26, "Object", [ok |-> Bool(TRUE), value |-> Num(42), error |-> Str("x")]),
     Obj(27, "Object", [ok |-> Bool(FALSE), value |-> Num(42), error |-> Str("x")])}

\* identities taken by the inputs; the allocator starts above them
InputIds ==
    {v.id : v \in {x \in Anything \cup Results \cup Handlers : x.kind \in {"object", "function"}}}

FirstFreeId ==
    1 + CHOOSE m \in InputIds : \A i \in InputIds : i <= m

(***************************************************************************)
(* State machine                                                           *)
(***************************************************************************)
NoFn == [act |-> "none", val |-> Undefined]

NoOutcome == [type |-> "none", val |-> Undefined]

NoProbe == [op |-> "none", a |-> Undefined, b |-> Undefined, out |-> NoOutcome]

Init ==
    /\ pc = "idle"
    /\ mode = "none"
    /\ fn = NoFn
    /\ handler = Undefined
    /\ base = FirstFreeId
    /\ nextId = FirstFreeId
    /\ outcome = NoOutcome
    /\ log = <<>>
    /\ calls = 0
    /\ probe = NoProbe

\* a call of resolve(fn, handler): synchronous, runs to completion
Resolve(f, h) ==
    /\ pc = "idle"
    /\ calls < MaxCalls
    /\ LET r == resolve(f, h, nextId) IN
        /\ outcome' = [type |-> r.type, val |-> r.val]
        /\ nextId' = r.next
        /\ log' = r.log
    /\ pc' = "done"
    /\ mode' = "sync"
    /\ fn' = f
    /\ handler' = h
    /\ base' = nextId
    /\ calls' = calls + 1
    /\ UNCHANGED probe

\* how the future returned by resolveAsync settles for an outcome of its body
Settled(r) ==
    [type |-> IF r.type = "return" THEN "fulfilled" ELSE "rejected", val |-> r.val]

\* a call of resolveAsync(fn, handler): runs up to the await
ResolveAsync(f, h) ==
    /\ pc = "idle"
    /\ calls < MaxCalls
    /\ LET r == resolveAsyncStart(f, h, nextId) IN
        /\ pc' = IF r.type = "await" THEN "await" ELSE "done"
        /\ outcome' = IF r.type = "await" THEN [type |-> "pending", val |-> Undefined]
                      ELSE Settled(r)
        /\ nextId' = r.next
        /\ log' = r.log
    /\ mode' = "async"
    /\ fn' = f
    /\ handler' = h
    /\ base' = nextId
    /\ calls' = calls + 1
    /\ UNCHANGED probe

\* the awaited future settles and resolveAsync runs to completion
Settle ==
    /\ pc = "await"
    /\ fn.act \in {"resolve", "reject"}
    /\ LET r == resolveAsyncResume(fn, handler, nextId) IN
        /\ outcome' = Settled(r)
        /\ nextId' = r.next
        /\ log' = log \o r.log
    /\ pc' = "done"
    /\ UNCHANGED <<mode, fn, handler, base, calls, probe>>

\* the caller has its result and goes on to the next call
Finish ==
    /\ pc = "done"
    /\ pc' = "idle"
    /\ mode' = "none"
    /\ fn' = NoFn
    /\ handler' = Undefined
    /\ outcome' = NoOutcome
    /\ log' = <<>>
    /\ base' = nextId
    /\ UNCHANGED <<nextId, calls, probe>>

Next ==
    \/ \E f \in SyncFns, h \in Handlers : Resolve(f, h)
    \/ \E f \in AsyncFns, h \in Handlers : ResolveAsync(f, h)
    \/ Settle
    \/ Finish

Spec == Init /\ [][Next]_vars

(***************************************************************************)
(* Properties of the adapters                                              *)
(***************************************************************************)
\* the call is over and the operation returned (or its future resolved to) a Result
FnReturned ==
    /\ pc = "done"
    /\ \/ (mode = "sync" /\ fn.act = "return")
       \/ (mode = "async" /\ fn.act = "resolve")

\* the call is over and the operation threw (or its future rejected)
FnRaised ==
    /\ pc = "done"
    /\ \/ (mode = "sync" /\ fn.act = "throw")
       \/ (mode = "async" /\ fn.act \in {"throw", "reject"})

\* the caller received v as the value of the call
Delivered(v) ==
    /\ outcome.type = (IF mode = "sync" THEN "return" ELSE "fulfilled")
    /\ outcome.val = v

\* the call threw (resolve) or its future rejected (resolveAsync)
Escaped ==
    outcome.type = (IF mode = "sync" THEN "throw" ELSE "rejected")

\* r is a failure Result whose error is e and nothing else
IsFailureWith(r, e) ==
    /\ r.kind = "object"
    /\ r.proto = "Object"
    /\ r.fields = [ok |-> Bool(FALSE), error |-> e]

\* the arguments the handler was invoked with, in order
HandlerArgs ==
    SelectSeq(log, LAMBDA x : x.ev = "handler_call")

\* C1: when the operation returns (or resolves to) a Result R, the adapter
\* delivers exactly R, failure Result included, whatever the handler is, and
\* the handler is not consulted.
C1_DeclaredPassThrough ==
    FnReturned => (Delivered(fn.val) /\ HandlerArgs = <<>>)

C1_Witness ==
    /\ FnReturned
    /\ fn.val = ErrResult
    /\ handler \in HandlerFunctions
    /\ outcome.val = ErrResult

\* the fallback message as the claim words it: any value exposing a message
\* attribute contributes that message
ClaimedFallback(x) ==
    IF x.kind = "string" THEN x
    ELSE IF InstanceofError(x) \/ HasProp("message", x) THEN Get(x, "message")
    ELSE Str("An error occurred")

\* the fallback message, amended: only instances of Error contribute a message
AmendedFallback(x) ==
    IF x.kind = "string" THEN x
    ELSE IF x.kind = "object" /\ x.proto = "Error" THEN Get(x, "message")
    ELSE Str("An error occurred")

\* C2 as stated: with no handler, a raised X yields a failure Result whose
\* error is X if X is a string, X's message if X exposes a message attribute,
\* and "An error occurred" otherwise.
C2_FallbackByAttribute ==
    (FnRaised /\ handler = Undefined)
        => (Delivered(outcome.val) /\ IsFailureWith(outcome.val, ClaimedFallback(fn.val)))

\* C2 amended: with no handler, a raised X yields a failure Result whose error
\* is X if X is a string, X's message if X is an instance of Error, and
\* "An error occurred" otherwise (also for a non-Error object that has a
\* message attribute).
C2_FallbackByInstance ==
    (FnRaised /\ handler = Undefined)
        => (Delivered(outcome.val) /\ IsFailureWith(outcome.val, AmendedFallback(fn.val)))

C2_Witness ==
    /\ FnRaised
    /\ handler = Undefined
    /\ fn.val = MessageObject
    /\ IsFailureWith(outcome.val, Str("An error occurred"))

\* C3: when the operation raises X and the handler is a function h that
\* returns, h was invoked once with X; the adapter delivers h(X) itself when
\* isResult(h(X)), and a failure Result whose error is h(X) otherwise.
C3_HandlerFunction ==
    (FnRaised /\ handler.kind = "function" /\ Apply(handler, fn.val, base).type = "return")
        => LET hx == Apply(handler, fn.val, base).val IN
           /\ HandlerArgs = <<Ev("handler_call", fn.val)>>
           /\ outcome.type = (IF mode = "sync" THEN "return" ELSE "fulfilled")
           /\ IF isResult(hx) THEN outcome.val = hx ELSE IsFailureWith(outcome.val, hx)

C3_Witness ==
    /\ FnRaised
    /\ handler.kind = "function"
    /\ handler.body = "ok(42)"
    /\ HandlerArgs = <<Ev("handler_call", fn.val)>>
    /\ outcome.val.fields.ok = Bool(TRUE)

\* C4: when the operation raises X and the handler is a present, non-callable
\* value D, the adapter delivers a failure Result whose error is D itself and
\* which holds nothing else.
C4_DefaultError ==
    (FnRaised /\ handler.kind \notin {"undefined", "null", "function"})
        => (Delivered(outcome.val) /\ IsFailureWith(outcome.val, handler))

C4_Witness ==
    /\ FnRaised
    /\ handler = MyError
    /\ fn.val = ErrBoom
    /\ outcome.val.fields.error = MyError

\* C5: a call throws (its future rejects) exactly when the operation raised,
\* the handler is a function and that function itself raised, and then what
\* escapes is what the handler raised; in every other finished call the caller
\* receives a Result.
C5_OnlyHandlerFailureEscapes ==
    pc = "done" =>
        LET handlerRaised ==
                /\ FnRaised
                /\ handler.kind = "function"
                /\ Apply(handler, fn.val, base).type = "throw"
        IN /\ Escaped <=> handlerRaised
           /\ Escaped => outcome.val = Apply(handler, fn.val, base).val
           /\ ~Escaped => (Delivered(outcome.val) /\ isResult(outcome.val))

C5_Witness ==
    /\ pc = "done"
    /\ mode = "async"
    /\ fn.act = "reject"
    /\ handler.kind = "function"
    /\ handler.body = "{ throw new Error('handler failed') }"
    /\ outcome.type = "rejected"

\* the synchronous operation that returns what the future resolves to and
\* throws what the future rejects with (or what the operation threw)
SyncOf(f) ==
    [act |-> IF f.act = "resolve" THEN "return" ELSE "throw", val |-> f.val]

\* C6: a finished resolveAsync call has settled the way resolve ends for the
\* corresponding synchronous operation and the same handler: fulfilled with
\* what resolve returns, rejected with what resolve throws.
C6_AsyncMirrorsSync ==
    (pc = "done" /\ mode = "async")
        => LET r == resolve(SyncOf(fn), handler, base) IN
           /\ outcome = Settled(r)
           /\ nextId = r.next

C6_Witness ==
    /\ pc = "done"
    /\ mode = "async"
    /\ fn.act = "reject"
    /\ handler.kind = "function"
    /\ outcome.type = "fulfilled"
    /\ Len(log) = 5

\* v is a Result built during the current call by ok or err
CreatedResult(v) ==
    /\ v.kind = "object"
    /\ v.id >= base
    /\ isResult(v)

\* the payload of a Result
Payload(r) ==
    IF r.fields.ok.b THEN r.fields.value ELSE r.fields.error

\* C9: a Result built by the constructors or by the error-normalization policy
\* during a call never carries null or undefined as its payload.
C9_PayloadNeverAbsent ==
    (pc = "done" /\ CreatedResult(outcome.val))
        => Payload(outcome.val) \notin {Null, Undefined}

\* the number of entries of the log of the given kinds
Count(kinds) ==
    Len(SelectSeq(log, LAMBDA x : x.ev \in kinds))

\* C10: in a call, the operation is invoked exactly once; the handler is
\* invoked at most once, only after the operation has raised or rejected,
\* nothing of the operation follows it, and it is not invoked while the
\* operation is pending nor when the operation returned or resolved.
C10_InvocationOrder ==
    /\ pc \in {"await", "done"} => Count({"fn_call"}) = 1
    /\ pc = "idle" => log = <<>>
    /\ Count({"handler_call"}) <= 1
    /\ pc = "await" => Count({"handler_call"}) = 0
    /\ Count({"fn_resolve"}) > 0 => Count({"handler_call"}) = 0
    /\ (mode = "sync" /\ Count({"fn_return"}) > 0) => Count({"handler_call"}) = 0
    /\ \A i \in 1..Len(log) :
        log[i].ev = "handler_call" =>
            /\ \E j \in 1..(i - 1) : log[j].ev \in {"fn_throw", "fn_reject"}
            /\ \A k \in (i + 1)..Len(log) : log[k].ev \in {"handler_return", "handler_throw"}
            /\ pc = "done"

C10_Witness ==
    /\ pc = "done"
    /\ mode = "async"
    /\ fn.act = "reject"
    /\ Count({"fn_call"}) = 1
    /\ Count({"handler_call"}) = 1
    /\ log[3].ev = "fn_reject"
    /\ log[4].ev = "handler_call"

(***************************************************************************)
(* The constructors, the predicate and the assertions, called directly     *)
(***************************************************************************)
\* one direct call of a helper: what was called, with what, and how it ended
Probed(op, a, b, o) ==
    /\ pc = "idle"
    /\ calls < MaxCalls
    /\ probe' = [op |-> op, a |-> a, b |-> b, out |-> [type |-> o.type, val |-> o.val]]
    /\ nextId' = o.next
    /\ base' = nextId
    /\ calls' = calls + 1
    /\ UNCHANGED <<pc, mode, fn, handler, outcome, log>>

Ok(v) == Probed("ok", v, Undefined, Returns(ok(v, nextId), nextId + 1))

Err(e) == Probed("err", e, Undefined, Returns(err(e, nextId), nextId + 1))

IsResult(v) == Probed("isResult", v, Undefined, Returns(Bool(isResult(v)), nextId))

AssertResultOk(r) == Probed("assertResultOk", r, Undefined, assertResultOk(r, nextId))

AssertResultErr(r) == Probed("assertResultErr", r, Undefined, assertResultErr(r, nextId))

AssertResultOkEqual(r, v) == Probed("assertResultOkEqual", r, v, assertResultOkEqual(r, v, nextId))

AssertResultErrEqual(r, e) == Probed("assertResultErrEqual", r, e, assertResultErrEqual(r, e, nextId))

NextAssert ==
    \/ \E v \in Payloads : Ok(v)
    \/ \E e \in Payloads : Err(e)
    \/ \E v \in Anything : IsResult(v)
    \/ \E r \in Results : AssertResultOk(r)
    \/ \E r \in Results : AssertResultErr(r)
    \/ \E r \in Results, v \in Payloads : AssertResultOkEqual(r, v)
    \/ \E r \in Results, e \in Payloads : AssertResultErrEqual(r, e)

SpecAssert == Init /\ [][NextAssert]_vars

\* the shape the claim requires of a Result
ClaimedIsResult(v) ==
    /\ v.kind = "object"
    /\ "ok" \in DOMAIN v.fields
    /\ v.fields.ok.kind = "boolean"
    /\ \/ (v.fields.ok.b /\ "value" \in DOMAIN v.fields)
       \/ (~v.fields.ok.b /\ "error" \in DOMAIN v.fields)

\* C7: isResult(v) is true exactly when v is a non-null object with a boolean
\* ok and the payload field matching it (value for true, error for false),
\* the other field being irrelevant; it is true of every output of ok and err.
C7_IsResultShape ==
    /\ probe.op = "isResult" => probe.out = [type |-> "return", val |-> Bool(ClaimedIsResult(probe.a))]
    /\ probe.op \in {"ok", "err"} => isResult(probe.out.val)

C7_Witness ==
    /\ probe.op = "isResult"
    /\ probe.a.kind = "object"
    /\ DOMAIN probe.a.fields = {"ok", "value", "error"}
    /\ probe.a.fields.ok = Bool(TRUE)
    /\ probe.out.val = Bool(TRUE)

\* C8: assertResultOkEqual(r, v) returns exactly when r is a success Result
\* whose value === v and throws otherwise; assertResultErrEqual(r, e) returns
\* exactly when r is a failure Result whose error === e and throws otherwise.
C8_EqualAssertions ==
    /\ probe.op = "assertResultOkEqual" =>
        /\ probe.out.type \in {"return", "throw"}
        /\ probe.out.type = "return" <=>
            (probe.a.fields.ok = Bool(TRUE) /\ StrictEq(probe.a.fields.value, probe.b))
    /\ probe.op = "assertResultErrEqual" =>
        /\ probe.out.type \in {"return", "throw"}
        /\ probe.out.type = "return" <=>
            (probe.a.fields.ok = Bool(FALSE) /\ StrictEq(probe.a.fields.error, probe.b))

C8_Witness ==
    /\ probe.op = "assertResultOkEqual"
    /\ probe.a.fields.ok = Bool(TRUE)
    /\ probe.a.fields.value = MyError
    /\ probe.b = MyErrorTwin
    /\ probe.out.type = "throw"

(***************************************************************************)
(* The null handler                                                        *)
(***************************************************************************)
\* C11: when the operation raises X and the handler argument is null, the
\* adapter treats the handler as absent: it delivers a failure Result whose
\* error is the fallback message of X, not a failure Result carrying null.
C11_NullHandlerIsAbsent ==
    (FnRaised /\ handler = Null)
        => /\ Delivered(outcome.val)
           /\ IsFailureWith(outcome.val, errMessage(fn.val))
           /\ ~IsFailureWith(outcome.val, Null)

====
